---- MODULE Spec2Model ----
(***************************************************************************)
(* FrameStack / LazyState of all/bodies/vision.py.                         *)
(*                                                                         *)
(* Two FrameStack bodies of the same size, one eager (lazy=False) and one  *)
(* lazy (lazy=True), are driven by one environment loop that hands both    *)
(* the same (state, reward) on every step.  Python lists are objects on a  *)
(* heap and are held by reference, so that a LazyState sharing its list    *)
(* with the live window is visible in the model.  Tensors are never        *)
(* written in place by this code and are modelled as values: a tensor of   *)
(* shape (batch, channels) is a sequence of rows, each a sequence of       *)
(* pixels.                                                                 *)
(***************************************************************************)
EXTENDS Integers, Sequences, FiniteSets

\* ------------------------------------------------------------------ bounds
MaxSize  == 2      \* largest window size passed to the constructor
MaxSteps == 3      \* act calls per run
MaxBatch == 2      \* largest batch dimension of an observation
Chan     == 2      \* channels of one observation

Sizes     == (-1)..MaxSize         \* constructor argument; -1 and 0 are invalid
Batches   == 1..MaxBatch
ObsIds    == {1, 2, 3}             \* the observations a, b, c
Masks     == {0, 1}                \* 0 = terminal
Infos     == {"i0", "i1"}
Rewards   == {0, 1}
Actions   == {"left", "right"}     \* what the wrapped agent may answer
Instances == {"eager", "lazy"}

VARIABLES
    pc,        \* "new" before __init__ ran, "ready" after
    size_arg,  \* the size argument of the constructor
    batch,     \* batch dimension of this environment's observations
    heap,      \* the list objects: heap[a] is the content of the list at address a
    fs,        \* fs[i]: the fields of FrameStack i (_frames is an address)
    agent,     \* agent[i]: what the wrapped stub agent of i recorded
    ret,       \* ret[i]: outcome of the last act call on i
    calls,     \* the raw of every state the loop supplied, in order
    cur,       \* mask, info and reward of the last call
    prev_mask, \* mask of the call before the last one (1 before any)
    emitted    \* LazyStates emitted so far: list address and content at emission

vars == <<pc, size_arg, batch, heap, fs, agent, ret, calls, cur, prev_mask, emitted>>

\* ----------------------------------------------------------------- tensors
\* Observation v of this environment: every pixel carries its own tag.
Frame(v, nb) == [b \in 1..nb |-> [c \in 1..Chan |-> 100 * v + 10 * b + c]]

RECURSIVE CatRows(_, _)
CatRows(frames, b) ==
    IF frames = <<>> THEN <<>>
    ELSE Head(frames)[b] \o CatRows(Tail(frames), b)

\* torch.cat(frames, dim=1): needs a non-empty list of tensors that agree in
\* every dimension but 1; joins the rows channel after channel.
torch_cat(frames) ==
    IF frames = <<>> \/ \E i \in DOMAIN frames : Len(frames[i]) # Len(frames[1])
    THEN [ok |-> FALSE, val |-> <<>>]
    ELSE [ok |-> TRUE,
          val |-> [b \in 1..Len(frames[1]) |-> CatRows(frames, b)]]

\* [x] * n: n copies of x, the empty list when n <= 0.
PyRepeat(x, n) == IF n <= 0 THEN <<>> ELSE [i \in 1..n |-> x]

\* ------------------------------------------------------------------ states
\* State(raw, mask, info)
State(raw, mask, info) ==
    [kind |-> "State", _raw |-> raw, mask |-> mask, info |-> info]

\* len(State): the batch dimension of raw
State_len(s) == Len(s._raw)

\* LazyState(frames, mask, info): _raw is the list it was given, by reference
LazyState(ref, mask, info) ==
    [kind |-> "LazyState", _raw |-> ref, mask |-> mask, info |-> info]

RECURSIVE CatDim0(_)
CatDim0(frames) ==
    IF frames = <<>> THEN <<>> ELSE Head(frames) \o CatDim0(Tail(frames))

\* Slip: the frames are joined along dimension 0 (the batch) instead of 1.
LazyState_features_Dim0(h, s) ==
    IF h[s._raw] = <<>> THEN [ok |-> FALSE, val |-> <<>>]
    ELSE [ok |-> TRUE, val |-> CatDim0(h[s._raw])]

\* LazyState.features
LazyState_features(h, s) == torch_cat(h[s._raw])

\* Slip: len(self._raw), the number of stacked frames.
LazyState_len_Frames(h, s) == [ok |-> TRUE, val |-> Len(h[s._raw])]

\* LazyState.__len__: len(self._raw[0]); IndexError on an empty list
LazyState_len(h, s) ==
    IF h[s._raw] = <<>> THEN [ok |-> FALSE, val |-> 0]
    ELSE [ok |-> TRUE, val |-> Len(h[s._raw][1])]

\* ------------------------------------------------------------- wrapped agent
NoAgentCall == [n |-> 0, state |-> [kind |-> "none"], reward |-> 0, returned |-> "none"]

\* The stub agent: records its inputs, answers a.
AgentAct(ag, state, reward, a) ==
    [n |-> ag.n + 1, state |-> state, reward |-> reward, returned |-> a]

\* --------------------------------------------------------------- FrameStack
\* FrameStack.__init__: no check of size; self._frames = [] is a new list.
FrameStack(h, size, lazy) ==
    [heap |-> Append(h, <<>>),
     self |-> [_frames |-> Len(h) + 1, _size |-> size, _lazy |-> lazy]]

\* Slip: the new frame is appended and the oldest one is kept.
NextFrames_NoDrop(frames, size, state) ==
    IF frames = <<>>
    THEN PyRepeat(state._raw, size)
    ELSE frames \o <<state._raw>>

\* Slip: the slice is frames[:-1], so the newest frame is the one replaced.
NextFrames_DropNewest(frames, size, state) ==
    IF frames = <<>>
    THEN PyRepeat(state._raw, size)
    ELSE SubSeq(frames, 1, Len(frames) - 1) \o <<state._raw>>

\* Slip: the window starts as [state.raw], not replicated.
NextFrames_NoReplicate(frames, size, state) ==
    IF frames = <<>>
    THEN <<state._raw>>
    ELSE Tail(frames) \o <<state._raw>>

\* Slip: a terminal state starts the window afresh.
NextFrames_ResetOnTerminal(frames, size, state) ==
    IF frames = <<>> \/ state.mask = 0
    THEN PyRepeat(state._raw, size)
    ELSE Tail(frames) \o <<state._raw>>

\* The new content of the window, act lines 13-16.
NextFrames(frames, size, state) ==
    IF frames = <<>>
    THEN PyRepeat(state._raw, size)
    ELSE Tail(frames) \o <<state._raw>>

\* Slip: the window list is updated in place (pop(0) and append), so every
\* holder of the list sees the change.
StoreFrames_InPlace(h, self, new) ==
    [heap |-> [h EXCEPT ![self._frames] = new], ref |-> self._frames]

\* self._frames = <new list>: the attribute is rebound to a new list object;
\* the list it named before is left as it was.
StoreFrames(h, self, new) ==
    [heap |-> Append(h, new), ref |-> Len(h) + 1]

\* Slip: mask is not handed on, the composite is built as State(raw, info=...).
Compose_DefaultMask(h, self, state) ==
    IF self._lazy
    THEN [ok |-> TRUE, state |-> LazyState(self._frames, 1, state.info)]
    ELSE LET c == torch_cat(h[self._frames])
         IN  IF c.ok
             THEN [ok |-> TRUE, state |-> State(c.val, 1, state.info)]
             ELSE [ok |-> FALSE, state |-> [kind |-> "none"]]

\* The composite state, act lines 18-21.
Compose(h, self, state) ==
    IF self._lazy
    THEN [ok |-> TRUE, state |-> LazyState(self._frames, state.mask, state.info)]
    ELSE LET c == torch_cat(h[self._frames])
         IN  IF c.ok
             THEN [ok |-> TRUE, state |-> State(c.val, state.mask, state.info)]
             ELSE [ok |-> FALSE, state |-> [kind |-> "none"]]

\* Slip: the agent is called with a reward of 0.
Delegate_ZeroReward(ag, composite, reward, a) ==
    LET ag1 == AgentAct(ag, composite, 0, a)
    IN  [agent |-> ag1, value |-> ag1.returned]

\* return self.agent.act(state, reward), act line 23.
Delegate(ag, composite, reward, a) ==
    LET ag1 == AgentAct(ag, composite, reward, a)
    IN  [agent |-> ag1, value |-> ag1.returned]

\* FrameStack.act(state, reward) on the body self whose agent is ag and will
\* answer a.
act(h, self, ag, state, reward, a) ==
    LET st    == StoreFrames(h, self, NextFrames(h[self._frames], self._size, state))
        self1 == [self EXCEPT !._frames = st.ref]
        built == Compose(st.heap, self1, state)
    IN  IF built.ok
        THEN LET d == Delegate(ag, built.state, reward, a)
             IN  [heap |-> st.heap, self |-> self1, agent |-> d.agent,
                  ret |-> [kind |-> "return", value |-> d.value]]
        ELSE [heap |-> st.heap, self |-> self1, agent |-> ag,
              ret |-> [kind |-> "raise", value |-> "RuntimeError"]]

\* ----------------------------------------------------------------- actions
NoRet == [kind |-> "none", value |-> "none"]

Init ==
    /\ pc = "new"
    /\ size_arg \in Sizes
    /\ batch \in Batches
    /\ heap = <<>>
    /\ fs = [i \in Instances |-> [_frames |-> 0, _size |-> 0, _lazy |-> FALSE]]
    /\ agent = [i \in Instances |-> NoAgentCall]
    /\ ret = [i \in Instances |-> NoRet]
    /\ calls = <<>>
    /\ cur = [mask |-> 1, info |-> "i0", reward |-> 0]
    /\ prev_mask = 1
    /\ emitted = <<>>

\* FrameStack(agent, size_arg, lazy=False) and FrameStack(agent, size_arg, lazy=True)
Construct ==
    /\ pc = "new"
    /\ LET e == FrameStack(heap, size_arg, FALSE)
           l == FrameStack(e.heap, size_arg, TRUE)
       IN  /\ heap' = l.heap
           /\ fs' = [i \in Instances |-> IF i = "eager" THEN e.self ELSE l.self]
    /\ pc' = "ready"
    /\ UNCHANGED <<size_arg, batch, agent, ret, calls, cur, prev_mask, emitted>>

\* One step of the environment loop: both bodies get act(state, reward).
EnvStep ==
    /\ pc = "ready"
    /\ Len(calls) < MaxSteps
    /\ \E v \in ObsIds, mask \in Masks, info \in Infos, reward \in Rewards, a \in Actions :
        \E state \in {State(Frame(v, batch), mask, info)} :
        \E e \in {act(heap, fs["eager"], agent["eager"], state, reward, a)} :
        \E l \in {act(e.heap, fs["lazy"], agent["lazy"], state, reward, a)} :
            /\ heap' = l.heap
            /\ fs' = [i \in Instances |-> IF i = "eager" THEN e.self ELSE l.self]
            /\ agent' = [i \in Instances |-> IF i = "eager" THEN e.agent ELSE l.agent]
            /\ ret' = [i \in Instances |-> IF i = "eager" THEN e.ret ELSE l.ret]
            /\ calls' = Append(calls, state._raw)
            /\ cur' = [mask |-> mask, info |-> info, reward |-> reward]
            /\ prev_mask' = cur.mask
            /\ emitted' = IF l.ret.kind = "return"
                          THEN Append(emitted, [_raw |-> l.agent.state._raw,
                                                frames |-> l.heap[l.agent.state._raw]])
                          ELSE emitted
    /\ UNCHANGED <<pc, size_arg, batch>>

Next == Construct \/ EnvStep

Spec == Init /\ [][Next]_vars

\* ------------------------------------------------------- notions of the claims
NumCalls == Len(calls)

\* The live window of body i and the frames of the composite i's agent got last.
Window(i) == heap[fs[i]._frames]
LazyFrames == heap[agent["lazy"].state._raw]
EagerRaw == agent["eager"].state._raw

\* Every body was handed a composite state in the last call.
Handed(i) == NumCalls >= 1 /\ agent[i].n = NumCalls /\ ret[i].kind = "return"

\* A body built by the constructor with a window size of the contract (positive).
Built == pc = "ready" /\ \A i \in Instances : fs[i]._size >= 1

Copies(x, n) == [j \in 1..n |-> x]
Min(x, y) == IF x <= y THEN x ELSE y

\* t is the frames joined along the channel axis, element for element.
IsConcat(t, frames) ==
    /\ Len(t) = batch
    /\ \A b \in 1..batch :
        /\ Len(t[b]) = Len(frames) * Chan
        /\ \A j \in 1..Len(frames) : \A c \in 1..Chan :
              t[b][(j - 1) * Chan + c] = frames[j][b][c]

\* The window the claim predicts after the calls so far, oldest first.
ExpectedWindow(size) ==
    LET m == Min(NumCalls, size)
    IN  Copies(calls[1], size - m) \o SubSeq(calls, NumCalls - m + 1, NumCalls)

\* --------------------------------------------------------------------- claims
\* C1: with size >= 1, after every act call the window has length exactly size
\* and the eager composite handed to the agent has size * channels channels.
C1_WindowFill ==
    (Built /\ NumCalls >= 1) =>
        /\ \A i \in Instances : Len(Window(i)) = fs[i]._size
        /\ Handed("eager")
        /\ agent["eager"].state.kind = "State"
        /\ \A b \in 1..batch : Len(EagerRaw[b]) = fs["eager"]._size * Chan

C1_Witness ==
    /\ Built /\ NumCalls = 3 /\ fs["eager"]._size = 2
    /\ Len(Window("eager")) = 2 /\ Len(Window("lazy")) = 2
    /\ Len(EagerRaw[1]) = 2 * Chan

\* C2: with size >= 1, after the k-th call the window is, oldest first, the last
\* min(k, size) observations preceded by size - min(k, size) copies of the first
\* one, and that is what the agent is handed (size 2, a b c: [a,a] [a,b] [b,c]).
C2_Sliding ==
    (Built /\ NumCalls >= 1) =>
        /\ \A i \in Instances : Window(i) = ExpectedWindow(fs[i]._size)
        /\ Handed("lazy") /\ LazyFrames = ExpectedWindow(fs["lazy"]._size)
        /\ Handed("eager") /\ IsConcat(EagerRaw, ExpectedWindow(fs["eager"]._size))

C2_Witness ==
    /\ Built /\ fs["lazy"]._size = 2
    /\ calls = <<Frame(1, batch), Frame(2, batch), Frame(3, batch)>>
    /\ LazyFrames = <<Frame(2, batch), Frame(3, batch)>>
    /\ IsConcat(EagerRaw, <<Frame(2, batch), Frame(3, batch)>>)

\* C3: on the first call the composite is size identical copies of that call's
\* raw: as a sequence for the lazy body, joined along the channels for the eager.
C3_InitReplication ==
    (Built /\ NumCalls = 1) =>
        /\ Handed("lazy")
        /\ Len(LazyFrames) = fs["lazy"]._size
        /\ \A j \in DOMAIN LazyFrames : LazyFrames[j] = calls[1]
        /\ Handed("eager")
        /\ IsConcat(EagerRaw, Copies(calls[1], fs["eager"]._size))

C3_Witness ==
    /\ Built /\ NumCalls = 1 /\ fs["lazy"]._size = 2
    /\ LazyFrames = <<calls[1], calls[1]>>
    /\ IsConcat(EagerRaw, <<calls[1], calls[1]>>)

\* C4: the frame sequence held by a LazyState emitted at some step, and so its
\* features, stay what they were at emission through all later act calls.
C4_NonAliasing ==
    \A t \in DOMAIN emitted :
        /\ heap[emitted[t]._raw] = emitted[t].frames
        /\ LazyState_features(heap, emitted[t]) = torch_cat(emitted[t].frames)

C4_Witness ==
    /\ Built /\ Len(emitted) >= 2
    /\ Window("lazy") # emitted[1].frames
    /\ heap[emitted[1]._raw] = emitted[1].frames

\* C5: fed the same calls, the features of the lazy body's composite equal the
\* raw of the eager body's composite, element for element, at every step.
C5_EagerLazyEquivalence ==
    (Handed("lazy") /\ Handed("eager")) =>
        /\ LazyState_features(heap, agent["lazy"].state).ok
        /\ LazyState_features(heap, agent["lazy"].state).val = EagerRaw

C5_Witness ==
    /\ Built /\ NumCalls = 3 /\ fs["lazy"]._size = 2
    /\ calls[2] # calls[3]
    /\ Handed("lazy") /\ Handed("eager")
    /\ LazyState_features(heap, agent["lazy"].state).val = EagerRaw

\* C6: every act call invokes the wrapped agent exactly once, with the composite
\* built in that call and the reward it was given, and returns the agent's answer.
C6_Delegation ==
    Built =>
        /\ \A i \in Instances : agent[i].n = NumCalls
        /\ NumCalls >= 1 =>
            /\ \A i \in Instances :
                /\ agent[i].reward = cur.reward
                /\ ret[i] = [kind |-> "return", value |-> agent[i].returned]
            /\ agent["lazy"].state.kind = "LazyState"
            /\ agent["lazy"].state._raw = fs["lazy"]._frames
            /\ agent["eager"].state.kind = "State"
            /\ IsConcat(EagerRaw, Window("eager"))

C6_Witness ==
    /\ Built /\ NumCalls = 2 /\ cur.reward = 1
    /\ \A i \in Instances :
        agent[i].n = 2 /\ agent[i].reward = 1 /\ ret[i].value = "right"

\* C7: the mask and info of the composite handed to the agent are those of that
\* call's incoming state, in both modes.
C7_PassThrough ==
    \A i \in Instances :
        Handed(i) => agent[i].state.mask = cur.mask /\ agent[i].state.info = cur.info

C7_Witness ==
    /\ Built /\ NumCalls >= 2 /\ fs["lazy"]._size = 2
    /\ prev_mask = 1 /\ cur.mask = 0 /\ cur.info = "i1"
    /\ \A i \in Instances :
        Handed(i) /\ agent[i].state.mask = 0 /\ agent[i].state.info = "i1"

\* C8: a FrameStack with a non-positive window size is refused at construction,
\* so none ever exists.
C8_FailFast == pc = "ready" => \A i \in Instances : fs[i]._size >= 1

\* C9: len of the composite is the batch dimension of one observation in both
\* modes, whatever the window size.
C9_LengthContract ==
    (Built /\ NumCalls >= 1) =>
        /\ LazyState_len(heap, agent["lazy"].state) = [ok |-> TRUE, val |-> batch]
        /\ State_len(agent["eager"].state) = batch

C9_Witness ==
    /\ Built /\ NumCalls >= 1 /\ fs["lazy"]._size = 2 /\ batch = 1
    /\ LazyState_len(heap, agent["lazy"].state).val = 1
    /\ State_len(agent["eager"].state) = 1

\* C10: with size >= 1 every call after the first slides the window (the
\* replicating branch is not taken again), and a call that follows a terminal
\* state (mask = 0) still hands on the size - 1 newest frames of the old window.
C10_Slides ==
    \A i \in Instances :
        /\ Window(i)' = Tail(Window(i)) \o <<calls'[NumCalls']>>
        /\ cur.mask = 0 =>
            /\ SubSeq(LazyFrames', 1, fs["lazy"]._size - 1) =
                   SubSeq(Window("lazy"), 2, fs["lazy"]._size)
            /\ IsConcat(EagerRaw', Tail(Window("eager")) \o <<calls'[NumCalls']>>)

\* C10 as a property of every act call after the first.
C10_NoEpisodeReset ==
    [][(Built /\ NumCalls >= 1 /\ NumCalls' = NumCalls + 1) => C10_Slides]_vars

C10_Witness ==
    /\ Built /\ NumCalls >= 2 /\ fs["lazy"]._size = 2 /\ prev_mask = 0
    /\ calls[NumCalls - 1] # calls[NumCalls]
    /\ LazyFrames = <<calls[NumCalls - 1], calls[NumCalls]>>
    /\ IsConcat(EagerRaw, <<calls[NumCalls - 1], calls[NumCalls]>>)

====
